---- MODULE Spec2Model ----
(***************************************************************************)
(* A model of the semantic-version value of deploy/version.py: parsing a   *)
(* version string, bumping, rendering, comparing across the three classes  *)
(* (_Version, _VersionPatch, _VersionBuildDC) and the pickle-backed        *)
(* VersionSerializer; of the line injectors of injector/ (LineInjector,    *)
(* VersionInjector, DateInjector and its _DateParser); and of the process  *)
(* wrapper of deploy/program.py.                                           *)
(*                                                                         *)
(* A Python str is a sequence of one-character strings; a Python object is *)
(* a record whose cls field names its class and whose other fields are the *)
(* entries of its __dict__; a Python bool that may also be NotImplemented  *)
(* is one of the strings "True", "False", "NotImplemented".                *)
(***************************************************************************)
EXTENDS Integers, Sequences, FiniteSets, TLC

(* Bounds of the model: the length of the version strings enumerated in   *)
(* full, the largest field a bump may reach (with one object, and with    *)
(* two), and the largest bump amount.                                      *)
MaxLen == 5
MaxNum == 3
MaxPairNum == 1
MaxAmount == 2

(* The number of lines of a file, the length of the lines enumerated in    *)
(* full, the number of fragments on each side of a date, and the number of *)
(* writes of a child process.                                              *)
MaxLines == 4
MaxLineLen == 3
MaxFragments == 2
MaxWrites == 3

VARIABLES heap, ctorBuild, last, dirKind, fileKind, blob, savedArg,
          sample, candidate, cmd, script, pipe, wrote, got, held, pc, child

\* The variables of the versions and of their serializer, last apart.
versionVars == <<heap, ctorBuild, dirKind, fileKind, blob, savedArg>>

\* The variables of the injectors.
injectVars == <<sample, candidate>>

\* The variables of Program.
programVars == <<cmd, script, pipe, wrote, got, held, pc, child>>

vars == <<versionVars, last, injectVars, programVars>>

---------------------------------------------------------------------------
(* Sequence helpers. *)

SetMin(S) == CHOOSE x \in S : \A y \in S : x <= y

SetMax(S) == CHOOSE x \in S : \A y \in S : x >= y

EndsWith(s, t) ==
    /\ Len(t) <= Len(s)
    /\ SubSeq(s, Len(s) - Len(t) + 1, Len(s)) = t

---------------------------------------------------------------------------
(* Python values. *)

\* None where a str is expected: no character is the string "None".
NoneStr == <<"None">>

\* None where an object is expected.
NoObj == [cls |-> "None"]

\* None where a Bump is expected.
NoBump == "None"

\* util.require_non_none: TRUE when the call returns its argument, FALSE
\* when it raises ValueError; none is the None of the argument's type.
require_non_none(obj, none) == obj # none

PyBool(b) == IF b THEN "True" ELSE "False"

---------------------------------------------------------------------------
(* int(str) and str(int) for the decimal digits. *)

Digits == <<"0", "1", "2", "3", "4", "5", "6", "7", "8", "9">>

IsDigit(c) == \E i \in 1..Len(Digits) : Digits[i] = c

DigitVal(c) == (CHOOSE i \in 1..Len(Digits) : Digits[i] = c) - 1

RECURSIVE ParseInt(_)
ParseInt(ds) ==
    IF ds = <<>> THEN 0
    ELSE 10 * ParseInt(SubSeq(ds, 1, Len(ds) - 1)) + DigitVal(ds[Len(ds)])

RECURSIVE StrInt(_)
StrInt(n) ==
    IF n < 10 THEN <<Digits[n + 1]>>
    ELSE StrInt(n \div 10) \o <<Digits[(n % 10) + 1]>>

---------------------------------------------------------------------------
(* The three regular expressions of Version.__new__, matched as re.match   *)
(* matches them: anchored at the start of the string, '.' matching every   *)
(* character but the line feed, a quantifier greedy unless followed by     *)
(* '?', '\d+' backtracking over the run of digits it stands on.            *)

\* '.' of a regular expression.
AnyChar(c) == c # "\n"

\* Whether '.*' can match s[i..j] (the empty range when j < i).
AnyRun(s, i, j) == \A k \in i..j : AnyChar(s[k])

\* One less than the least member of stops, or end when there is none.
StopBefore(stops, end) == IF stops = {} THEN end ELSE SetMin(stops) - 1

\* The last index of the maximal run of digits starting at i (s[i] a digit).
RunEnd(s, i) == StopBefore({j \in i..Len(s) : ~IsDigit(s[j])}, Len(s))

\* The index after e when s holds c there and e is not 0, else 0.
CharAfter(s, e, c) ==
    IF e # 0 /\ e + 1 <= Len(s) /\ s[e + 1] = c THEN e + 1 ELSE 0

\* '\d+' at i, the run taken whole: the index of its last digit, or 0.
DigitsAt(s, i) ==
    IF i >= 1 /\ i <= Len(s) /\ IsDigit(s[i]) THEN RunEnd(s, i) ELSE 0

\* '\d+' at the index after d, when d is not 0.
DigitsAfter(s, d) == IF d # 0 THEN DigitsAt(s, d + 1) ELSE 0

\* '\d+' at i followed by '\.': the index of the dot, or 0. A shorter run of
\* digits is followed by a digit, so only the maximal run can be followed
\* by the dot.
DigitsDot(s, i) == CharAfter(s, DigitsAt(s, i), ".")

\* '\d+\.\d+' at i, the second run taken whole: the index of its last
\* digit, or 0.
MajorMinorAt(s, i) == DigitsAfter(s, DigitsDot(s, i))

\* The groups (\d+) and (\d+) of '(\d+)\.(\d+)' matched at k, the dot at d.
MajorMinorGroups(s, k, d) ==
    [ok |-> TRUE, g1 |-> SubSeq(s, k, d - 1),
     g2 |-> SubSeq(s, d + 1, DigitsAfter(s, d))]

\* The match at the least of starts, none when starts is empty.
FirstMajorMinor(s, starts) ==
    IF starts = {} THEN [ok |-> FALSE, g1 |-> <<>>, g2 |-> <<>>]
    ELSE MajorMinorGroups(s, SetMin(starts), DigitsDot(s, SetMin(starts)))

\* match(r".*?(\d+)\.(\d+).*", s): the groups of the first (leftmost) match.
MatchMajorMinor(s) ==
    FirstMajorMinor(s, {k \in 1..Len(s) :
                           AnyRun(s, 1, k - 1) /\ MajorMinorAt(s, k) # 0})

\* '\d+\.\d+\.' at i: the index of the second dot, or 0. The second '\d+'
\* must be followed by a dot, so it too is a maximal run.
SecondDot(s, i) == CharAfter(s, MajorMinorAt(s, i), ".")

\* '\d+\.\d+\.(\d+)' at i: the index of the last digit of the group, or 0.
PatchAt(s, i) == DigitsAfter(s, SecondDot(s, i))

\* The match at the least of starts, none when starts is empty.
FirstPatch(s, starts) ==
    IF starts = {} THEN [ok |-> FALSE, g1 |-> <<>>]
    ELSE [ok |-> TRUE,
          g1 |-> SubSeq(s, SecondDot(s, SetMin(starts)) + 1,
                        PatchAt(s, SetMin(starts)))]

\* match(r".*?\d+\.\d+\.(\d+).*", s): the group of the leftmost match.
MatchPatch(s) ==
    FirstPatch(s, {k \in 1..Len(s) : AnyRun(s, 1, k - 1) /\ PatchAt(s, k) # 0})

\* The '-' of '\d+\.\d+(\.\d+)?-': after the optional group (hp) when that
\* matched, else directly after the second run of digits (hm); or 0.
Hyphen(hp, hm) == IF hp # 0 THEN hp ELSE hm

\* '(.+)' at the index after h: h when a character other than the line feed
\* stands there, else 0.
TagAfter(s, h) ==
    IF h # 0 /\ h + 1 <= Len(s) /\ AnyChar(s[h + 1]) THEN h ELSE 0

\* '\d+\.\d+(\.\d+)?-(.+)' at i: the index of the '-', or 0.
BuildAt(s, i) ==
    TagAfter(s, Hyphen(CharAfter(s, PatchAt(s, i), "-"),
                       CharAfter(s, MajorMinorAt(s, i), "-")))

\* '(.+)' after the '-' at h: to the end of the line.
TagFrom(s, h) ==
    SubSeq(s, h + 1, StopBefore({j \in (h + 1)..Len(s) : ~AnyChar(s[j])}, Len(s)))

\* The match at the greatest of starts, none when starts is empty.
LastBuild(s, starts) ==
    IF starts = {} THEN [ok |-> FALSE, g2 |-> <<>>]
    ELSE [ok |-> TRUE, g2 |-> TagFrom(s, BuildAt(s, SetMax(starts)))]

\* match(r".*\d+\.\d+(\.\d+)?-(.+)", s): group 2 of the match whose leading
\* '.*' is longest.
MatchBuild(s) ==
    LastBuild(s, {k \in 1..Len(s) : AnyRun(s, 1, k - 1) /\ BuildAt(s, k) # 0})

---------------------------------------------------------------------------
(* The classes of version.py. *)

\* _Version.__init__
NewVersion(major, minor) ==
    [cls |-> "_Version", _major |-> major, _minor |-> minor]

\* _VersionPatch.__init__
NewVersionPatch(major, minor, patch) ==
    [cls |-> "_VersionPatch", _major |-> major, _minor |-> minor,
     _patch |-> patch]

\* _VersionBuildDC.__init__: super().__init__() leaves the facade's own
\* _major and _minor at the defaults 1 and 0.
NewVersionBuildDC(decorated, build) ==
    [cls |-> "_VersionBuildDC", _major |-> 1, _minor |-> 0,
     __decorated |-> decorated, _build |-> build]

\* isinstance(o, c) over the hierarchy _Version <- _VersionPatch,
\* _Version <- _VersionBuildDC.
IsSubclass(c, d) == c = d \/ (d = "_Version" /\ c \in {"_VersionPatch", "_VersionBuildDC"})

IsInstance(o, c) == o.cls # "None" /\ IsSubclass(o.cls, c)

\* _VersionPatch(major, minor, patch) when the patch matched (m2), else
\* _Version(major, minor).
NewInstance(m1, m2) ==
    IF m2.ok
    THEN NewVersionPatch(ParseInt(m1.g1), ParseInt(m1.g2), ParseInt(m2.g1))
    ELSE NewVersion(ParseInt(m1.g1), ParseInt(m1.g2))

\* The three matches of Version.__new__ in turn.
FromMatches(m1, m2, m3) ==
    IF ~m1.ok THEN [raised |-> "ValueError", obj |-> NoObj]
    ELSE IF m3.ok
    THEN [raised |-> "none", obj |-> NewVersionBuildDC(NewInstance(m1, m2), m3.g2)]
    ELSE [raised |-> "none", obj |-> NewInstance(m1, m2)]

\* Version.__new__: [raised, obj].
VersionNew(version) ==
    IF ~require_non_none(version, NoneStr)
    THEN [raised |-> "ValueError", obj |-> NoObj]
    ELSE FromMatches(MatchMajorMinor(version), MatchPatch(version),
                     MatchBuild(version))

\* The properties major, minor, patch and build, each dispatched on the class.
RECURSIVE major(_)
major(o) ==
    IF o.cls = "_VersionBuildDC" THEN major(o.__decorated) ELSE o._major

RECURSIVE minor(_)
minor(o) ==
    IF o.cls = "_VersionBuildDC" THEN minor(o.__decorated) ELSE o._minor

RECURSIVE patch(_)
patch(o) ==
    IF o.cls = "_VersionBuildDC" THEN patch(o.__decorated)
    ELSE IF o.cls = "_VersionPatch" THEN o._patch
    ELSE 0

build(o) == IF o.cls = "_VersionBuildDC" THEN o._build ELSE NoneStr

\* _Version.__str__
Str_Version(o) == <<"v">> \o StrInt(o._major) \o <<".">> \o StrInt(o._minor)

\* A mutant of _VersionPatch.__str__: the patch follows a '-'.
Str_VersionPatch_Hyphen(o) == Str_Version(o) \o <<"-">> \o StrInt(o._patch)

\* _VersionPatch.__str__
Str_VersionPatch(o) == Str_Version(o) \o <<".">> \o StrInt(o._patch)

RECURSIVE Str(_)

\* A mutant of _VersionBuildDC.__str__: the build tag is left out.
Str_VersionBuildDC_NoTag(o) == Str(o.__decorated)

\* _VersionBuildDC.__str__
Str_VersionBuildDC(o) == Str(o.__decorated) \o <<"-">> \o o._build

\* str(o), dispatched on the class.
Str(o) ==
    IF o.cls = "_VersionBuildDC" THEN Str_VersionBuildDC(o)
    ELSE IF o.cls = "_VersionPatch" THEN Str_VersionPatch(o)
    ELSE Str_Version(o)

---------------------------------------------------------------------------
(* bump. A call yields [obj, raised, ret]: the receiver after the call     *)
(* (changed also by a call that raises, up to the raise), the exception or *)
(* "none", and the returned rendering (<<>> when the call raised).         *)

\* A mutant of _validate_bump_increase: zero is accepted.
validate_bump_increase_AcceptsZero(increase) == ~(increase < 0)

\* _validate_bump_increase: TRUE when it returns, FALSE when it raises.
validate_bump_increase(increase) == ~(increase < 1)

Raise(o, exc) == [obj |-> o, raised |-> exc, ret |-> <<>>]

Return(o) == [obj |-> o, raised |-> "none", ret |-> Str(o)]

\* A mutant of _Version.bump: MAJOR leaves minor as it was.
bump_Version_KeepsMinor(self, bump, increase) ==
    IF ~validate_bump_increase(increase) THEN Raise(self, "ValueError")
    ELSE IF ~require_non_none(bump, NoBump) THEN Raise(self, "ValueError")
    ELSE IF bump = "MAJOR"
         THEN Return([self EXCEPT !._major = @ + increase])
    ELSE IF bump = "MINOR"
         THEN Return([self EXCEPT !._minor = @ + increase])
    ELSE Return(self)

\* _Version.bump that gives a version without a patch field one on PATCH:
\* the object becomes a patch-carrying one.
bump_Version_PatchAddsField(self, bump, increase) ==
    IF ~validate_bump_increase(increase) THEN Raise(self, "ValueError")
    ELSE IF ~require_non_none(bump, NoBump) THEN Raise(self, "ValueError")
    ELSE IF bump = "MAJOR"
         THEN Return([self EXCEPT !._major = @ + increase, !._minor = 0])
    ELSE IF bump = "MINOR"
         THEN Return([self EXCEPT !._minor = @ + increase])
    ELSE IF self.cls = "_Version"
         THEN Return(NewVersionPatch(self._major, self._minor, increase))
    ELSE Return(self)

\* _Version.bump, also reached as super().bump from _VersionPatch.bump.
bump_Version(self, bump, increase) ==
    IF ~validate_bump_increase(increase) THEN Raise(self, "ValueError")
    ELSE IF ~require_non_none(bump, NoBump) THEN Raise(self, "ValueError")
    ELSE IF bump = "MAJOR"
         THEN Return([self EXCEPT !._major = @ + increase, !._minor = 0])
    ELSE IF bump = "MINOR"
         THEN Return([self EXCEPT !._minor = @ + increase])
    ELSE Return(self)

\* A mutant of _VersionPatch.bump: MAJOR and MINOR leave the patch as it was.
bump_VersionPatch_KeepsPatch(self, bump, increase) ==
    IF ~require_non_none(bump, NoBump) THEN Raise(self, "ValueError")
    ELSE IF bump = "PATCH"
         THEN IF ~validate_bump_increase(increase) THEN Raise(self, "ValueError")
              ELSE Return([self EXCEPT !._patch = @ + increase])
    ELSE bump_Version(self, bump, increase)

\* A mutant of _VersionPatch.bump: PATCH adds one whatever the amount.
bump_VersionPatch_AddsOne(self, bump, increase) ==
    IF ~require_non_none(bump, NoBump) THEN Raise(self, "ValueError")
    ELSE IF bump = "PATCH"
         THEN IF ~validate_bump_increase(increase) THEN Raise(self, "ValueError")
              ELSE Return([self EXCEPT !._patch = @ + 1])
    ELSE bump_Version([self EXCEPT !._patch = 0], bump, increase)

\* _VersionPatch.bump
bump_VersionPatch(self, bump, increase) ==
    IF ~require_non_none(bump, NoBump) THEN Raise(self, "ValueError")
    ELSE IF bump = "PATCH"
         THEN IF ~validate_bump_increase(increase) THEN Raise(self, "ValueError")
              ELSE Return([self EXCEPT !._patch = @ + increase])
    ELSE bump_Version([self EXCEPT !._patch = 0], bump, increase)

\* o.bump(bump, increase), dispatched on the class; _VersionBuildDC.bump
\* for the facade.
RECURSIVE bump_dispatch(_, _, _)
bump_dispatch(self, bump, increase) ==
    IF self.cls = "_VersionBuildDC"
    THEN LET r == bump_dispatch(self.__decorated, bump, increase)
             after == [self EXCEPT !.__decorated = r.obj]
         IN  IF r.raised # "none" THEN Raise(after, r.raised) ELSE Return(after)
    ELSE IF self.cls = "_VersionPatch" THEN bump_VersionPatch(self, bump, increase)
    ELSE bump_Version(self, bump, increase)

---------------------------------------------------------------------------
(* Comparison. RichCompare is the interpreter's evaluation of `v op w`:    *)
(* the reflected method of w is tried first when type(w) is a proper       *)
(* subclass of type(v), then the method of v, then the reflected method of *)
(* w. __eq__ and __gt__ are the classes' own; __lt__, __le__ and __ge__    *)
(* are the ones @total_ordering derives from __gt__ on _Version and every  *)
(* subclass inherits; __ne__ is object.__ne__.                             *)

RECURSIVE RichCompare(_, _, _)
RECURSIVE CallMethod(_, _, _)

\* _Version.__eq__
eq_Version(self, other) ==
    IF IsInstance(other, "_Version")
    THEN PyBool(major(self) = major(other) /\ minor(self) = minor(other))
    ELSE "NotImplemented"

\* _Version.__gt__
gt_Version(self, other) ==
    IF IsInstance(other, "_Version")
    THEN IF major(self) > major(other) THEN "True"
         ELSE IF major(self) < major(other) THEN "False"
         ELSE PyBool(minor(self) > minor(other))
    ELSE "NotImplemented"

\* _VersionPatch.__eq__
eq_VersionPatch(self, other) ==
    LET r == eq_Version(self, other)
    IN  IF r = "True"
        THEN IF IsInstance(other, "_VersionPatch")
             THEN PyBool(patch(self) = patch(other))
             ELSE PyBool(patch(self) = 0)
        ELSE IF r = "False" THEN "False"
        ELSE "NotImplemented"

\* A mutant of _VersionPatch.__gt__: the patch is not compared.
gt_VersionPatch_IgnoresPatch(self, other) == gt_Version(self, other)

\* _VersionPatch.__gt__
gt_VersionPatch(self, other) ==
    LET r == gt_Version(self, other)
    IN  IF r = "True" THEN "True"
        ELSE IF r = "False"
             THEN IF major(self) = major(other) /\ minor(self) = minor(other)
                  THEN PyBool(patch(self) > patch(other))
                  ELSE "False"
        ELSE "NotImplemented"

\* _VersionBuildDC.__eq__
eq_VersionBuildDC(self, other) ==
    IF IsInstance(other, "_VersionBuildDC")
    THEN RichCompare(self.__decorated, other.__decorated, "==")
    ELSE RichCompare(self.__decorated, other, "==")

\* _VersionBuildDC.__gt__
gt_VersionBuildDC(self, other) ==
    IF IsInstance(other, "_VersionBuildDC")
    THEN RichCompare(self.__decorated, other.__decorated, ">")
    ELSE RichCompare(self.__decorated, other, ">")

\* functools.total_ordering's _lt_from_gt, _le_from_gt and _ge_from_gt,
\* each calling type(self).__gt__.
lt_from_gt(self, other) ==
    LET op_result == CallMethod(self, ">", other)
    IN  IF op_result = "NotImplemented" THEN op_result
        ELSE IF op_result = "True" THEN "False"
        ELSE RichCompare(self, other, "!=")

le_from_gt(self, other) ==
    LET op_result == CallMethod(self, ">", other)
    IN  IF op_result = "NotImplemented" THEN op_result
        ELSE PyBool(op_result # "True")

ge_from_gt(self, other) ==
    LET op_result == CallMethod(self, ">", other)
    IN  IF op_result = "NotImplemented" THEN op_result
        ELSE IF op_result = "True" THEN "True"
        ELSE RichCompare(self, other, "==")

\* object.__ne__: the inverse of type(self).__eq__.
ne_object(self, other) ==
    LET r == CallMethod(self, "==", other)
    IN  IF r = "NotImplemented" THEN r ELSE PyBool(r # "True")

\* type(self).<method of op>(self, other)
CallMethod(self, op, other) ==
    IF op = "==" THEN
        IF self.cls = "_VersionBuildDC" THEN eq_VersionBuildDC(self, other)
        ELSE IF self.cls = "_VersionPatch" THEN eq_VersionPatch(self, other)
        ELSE eq_Version(self, other)
    ELSE IF op = ">" THEN
        IF self.cls = "_VersionBuildDC" THEN gt_VersionBuildDC(self, other)
        ELSE IF self.cls = "_VersionPatch" THEN gt_VersionPatch(self, other)
        ELSE gt_Version(self, other)
    ELSE IF op = "!=" THEN ne_object(self, other)
    ELSE IF op = "<" THEN lt_from_gt(self, other)
    ELSE IF op = "<=" THEN le_from_gt(self, other)
    ELSE ge_from_gt(self, other)

\* The operator the interpreter gives the right operand.
SwappedOp(op) ==
    IF op = "<" THEN ">" ELSE IF op = ">" THEN "<"
    ELSE IF op = "<=" THEN ">=" ELSE IF op = ">=" THEN "<="
    ELSE op

\* `v op w`: "True", "False", or "TypeError" when no method answers an
\* ordering. The identity fallback of == and != is for two distinct objects.
RichCompare(v, w, op) ==
    LET reverse_first == v.cls # w.cls /\ IsSubclass(w.cls, v.cls)
        reflected == CallMethod(w, SwappedOp(op), v)
        direct == CallMethod(v, op, w)
    IN  IF reverse_first /\ reflected # "NotImplemented" THEN reflected
        ELSE IF direct # "NotImplemented" THEN direct
        ELSE IF ~reverse_first /\ reflected # "NotImplemented" THEN reflected
        ELSE IF op = "==" THEN "False"
        ELSE IF op = "!=" THEN "True"
        ELSE "TypeError"

---------------------------------------------------------------------------
(* VersionSerializer. The directory path and the file path each name       *)
(* nothing ("missing"), a directory ("dir") or a regular file ("file");    *)
(* blob is the content of the regular file.                                *)

\* pickle.dump of an object: the class by name and the __dict__, an object
\* held in the __dict__ pickled in its place.
RECURSIVE Dumps(_)
Dumps(o) ==
    IF o.cls = "_VersionBuildDC"
    THEN [class |-> o.cls,
          state |-> [_major |-> o._major, _minor |-> o._minor,
                     __decorated |-> Dumps(o.__decorated), _build |-> o._build]]
    ELSE IF o.cls = "_VersionPatch"
    THEN [class |-> o.cls,
          state |-> [_major |-> o._major, _minor |-> o._minor, _patch |-> o._patch]]
    ELSE [class |-> o.cls, state |-> [_major |-> o._major, _minor |-> o._minor]]

\* pickle.load of a blob pickle.dump wrote: a new object of the class with
\* the __dict__ restored.
RECURSIVE Loads(_)
Loads(b) ==
    IF b.class = "_VersionBuildDC"
    THEN [cls |-> b.class] @@
         [b.state EXCEPT !.__decorated = Loads(b.state.__decorated)]
    ELSE [cls |-> b.class] @@ b.state

\* The file open(..., "wb") has truncated and nothing was written to.
EmptyBlob == [class |-> "empty"]

\* A file that holds no pickle.
GarbageBlob == [class |-> "garbage"]

\* No regular file.
NoBlob == [class |-> "nofile"]

\* VersionSerializer.__check_valid_dir: the exception, or "none".
check_valid_dir ==
    IF dirKind = "missing" THEN "FileNotFoundError"
    ELSE IF dirKind # "dir" THEN "RuntimeError"
    ELSE "none"

\* VersionSerializer.__check_valid_file: the exception, or "none".
check_valid_file ==
    IF fileKind = "missing" THEN "FileNotFoundError"
    ELSE IF fileKind # "file" THEN "RuntimeError"
    ELSE "none"

\* VersionSerializer.loadable: [raised, ret]. The except clause names
\* FileNotFoundError | RuntimeError, a types.UnionType: matching an
\* exception against it raises TypeError.
loadable ==
    IF check_valid_dir # "none" THEN [raised |-> check_valid_dir, ret |-> "none"]
    ELSE IF check_valid_file = "none" THEN [raised |-> "none", ret |-> "True"]
    ELSE [raised |-> "TypeError", ret |-> "none"]

\* A mutant of VersionSerializer.save: a file that exists is not rewritten.
save_KeepsExisting(version) ==
    IF check_valid_dir # "none"
    THEN [raised |-> check_valid_dir, fileKind |-> fileKind, blob |-> blob]
    ELSE IF fileKind = "dir"
    THEN [raised |-> "IsADirectoryError", fileKind |-> fileKind, blob |-> blob]
    ELSE IF ~require_non_none(version, NoObj)
    THEN [raised |-> "ValueError", fileKind |-> "file", blob |-> EmptyBlob]
    ELSE IF fileKind = "file" /\ blob \notin {EmptyBlob, GarbageBlob}
    THEN [raised |-> "none", fileKind |-> "file", blob |-> blob]
    ELSE [raised |-> "none", fileKind |-> "file", blob |-> Dumps(version)]

\* VersionSerializer.save: [raised, fileKind, blob]. open(..., "wb")
\* creates or truncates the file before require_non_none(version) runs.
save(version) ==
    IF check_valid_dir # "none"
    THEN [raised |-> check_valid_dir, fileKind |-> fileKind, blob |-> blob]
    ELSE IF fileKind = "dir"
    THEN [raised |-> "IsADirectoryError", fileKind |-> fileKind, blob |-> blob]
    ELSE IF ~require_non_none(version, NoObj)
    THEN [raised |-> "ValueError", fileKind |-> "file", blob |-> EmptyBlob]
    ELSE [raised |-> "none", fileKind |-> "file", blob |-> Dumps(version)]

\* VersionSerializer.load: [raised, obj].
load ==
    IF check_valid_dir # "none" THEN [raised |-> check_valid_dir, obj |-> NoObj]
    ELSE IF check_valid_file # "none" THEN [raised |-> check_valid_file, obj |-> NoObj]
    ELSE IF blob = EmptyBlob THEN [raised |-> "EOFError", obj |-> NoObj]
    ELSE IF blob = GarbageBlob THEN [raised |-> "UnpicklingError", obj |-> NoObj]
    ELSE [raised |-> "none", obj |-> Loads(blob)]

---------------------------------------------------------------------------
(* Text files and the lines read from them. A file's content is a str; the *)
(* injectors open it in text mode with the default newline handling, on a  *)
(* POSIX platform: reading turns "\r\n" and "\r" into "\n", writing leaves  *)
(* "\n" as it is.                                                           *)

\* marker in line
Contains(s, t) ==
    \E k \in 0..(Len(s) - Len(t)) : SubSeq(s, k + 1, k + Len(t)) = t

\* s.startswith(t)
StartsWith(s, t) == Len(t) <= Len(s) /\ SubSeq(s, 1, Len(t)) = t

\* "".join(parts)
RECURSIVE Join(_)
Join(parts) ==
    IF parts = <<>> THEN <<>> ELSE Head(parts) \o Join(Tail(parts))

\* The text a read of the bytes b yields: universal newlines.
RECURSIVE UniversalNewlines(_)
UniversalNewlines(b) ==
    IF b = <<>> THEN <<>>
    ELSE IF Head(b) = "\r" /\ Len(b) >= 2 /\ b[2] = "\n"
         THEN <<"\n">> \o UniversalNewlines(SubSeq(b, 3, Len(b)))
    ELSE IF Head(b) = "\r" THEN <<"\n">> \o UniversalNewlines(Tail(b))
    ELSE <<Head(b)>> \o UniversalNewlines(Tail(b))

\* The index of the first "\n" of t, or Len(t) when it holds none.
LineEnd(t) == StopBefore({j \in 1..Len(t) : t[j] = "\n"}, Len(t) - 1) + 1

\* The lines of the text t, each with its "\n" (the last one may lack it).
RECURSIVE SplitLines(_)
SplitLines(t) ==
    IF t = <<>> THEN <<>>
    ELSE <<SubSeq(t, 1, LineEnd(t))>> \o SplitLines(SubSeq(t, LineEnd(t) + 1, Len(t)))

\* file.readlines() on a file holding the bytes b.
readlines(b) == SplitLines(UniversalNewlines(b))

\* file.writelines(lines) after seek(0) and truncate(): the bytes of the file.
writelines(lines) == Join(lines)

---------------------------------------------------------------------------
(* VersionInjector._substitute. The four patterns are tried in order, each *)
(* with re.match: group 1 is the shortest prefix after which the token     *)
(* matches, group 2 the rest of the line up to, and without, a line feed.  *)

\* [a-zA-Z0-9]
IsAlnum(c) ==
    IsDigit(c) \/ c \in
        {"a", "b", "c", "d", "e", "f", "g", "h", "i", "j", "k", "l", "m", "n",
         "o", "p", "q", "r", "s", "t", "u", "v", "w", "x", "y", "z",
         "A", "B", "C", "D", "E", "F", "G", "H", "I", "J", "K", "L", "M", "N",
         "O", "P", "Q", "R", "S", "T", "U", "V", "W", "X", "Y", "Z"}

\* '\-[a-zA-Z0-9]+' after the index e (not 0): the index of the last
\* character of the run, or 0.
BuildTokenAfter(s, e) ==
    IF CharAfter(s, e, "-") # 0 /\ e + 2 <= Len(s) /\ IsAlnum(s[e + 2])
    THEN StopBefore({j \in (e + 2)..Len(s) : ~IsAlnum(s[j])}, Len(s))
    ELSE 0

\* The index of the last character of the token of pattern n (1..4) when
\* the token starts with the 'v' at k, or 0.
TokenEnd(s, k, n) ==
    IF ~(k >= 1 /\ k <= Len(s) /\ s[k] = "v") THEN 0
    ELSE IF n = 1 THEN BuildTokenAfter(s, PatchAt(s, k + 1))
    ELSE IF n = 2 THEN BuildTokenAfter(s, MajorMinorAt(s, k + 1))
    ELSE IF n = 3 THEN PatchAt(s, k + 1)
    ELSE MajorMinorAt(s, k + 1)

\* The starts of the matches of pattern n in the line.
TokenStarts(s, n) ==
    {k \in 1..Len(s) : AnyRun(s, 1, k - 1) /\ TokenEnd(s, k, n) # 0}

\* group(1) and group(2) of the match of pattern n whose token starts at k
\* and ends at e.
TokenGroups(s, k, e) ==
    [g1 |-> SubSeq(s, 1, k - 1),
     g2 |-> SubSeq(s, e + 1, StopBefore({j \in (e + 1)..Len(s) : ~AnyChar(s[j])}, Len(s)))]

\* match(pattern n, line): the groups of the leftmost match.
MatchToken(s, n) ==
    TokenGroups(s, SetMin(TokenStarts(s, n)), TokenEnd(s, SetMin(TokenStarts(s, n)), n))

\* The patterns tried in the reverse order of the list, the least specific
\* first.
FirstPattern_LeastSpecificFirst(s) ==
    IF TokenStarts(s, 4) # {} THEN 4
    ELSE IF TokenStarts(s, 3) # {} THEN 3
    ELSE IF TokenStarts(s, 2) # {} THEN 2
    ELSE IF TokenStarts(s, 1) # {} THEN 1
    ELSE 0

\* The first pattern, in the order of the list, that matches; 0 when none.
FirstPattern(s) ==
    IF TokenStarts(s, 1) # {} THEN 1
    ELSE IF TokenStarts(s, 2) # {} THEN 2
    ELSE IF TokenStarts(s, 3) # {} THEN 3
    ELSE IF TokenStarts(s, 4) # {} THEN 4
    ELSE 0

\* VersionInjector._substitute(line): [raised, ret].
substitute_Version(version, line) ==
    IF FirstPattern(line) = 0 THEN [raised |-> "RuntimeError", ret |-> <<>>]
    ELSE [raised |-> "none",
          ret |-> MatchToken(line, FirstPattern(line)).g1 \o Str(version)
                     \o MatchToken(line, FirstPattern(line)).g2]

---------------------------------------------------------------------------
(* _DateParser: a line is decomposed into its control runs (prot_tokens)   *)
(* and its content runs (std_tokens), the date is injected into the first  *)
(* content run that holds one, and the runs are merged back.               *)

\* A member of __PROTECTED_CHARACTERS.
IsProtected(c) == c \in {"\n", "\t", "\r", "\f"}

\* re.split(pattern, content) for a pattern '[...]+' whose class holds the
\* protected characters (sep = TRUE) or all the others (sep = FALSE): the
\* pieces between the matches, the empty ones included; cur is the piece
\* being read at i.
RECURSIVE ReSplit(_, _, _, _)
ReSplit(s, i, cur, sep) ==
    IF i > Len(s) THEN <<cur>>
    ELSE IF IsProtected(s[i]) # sep THEN ReSplit(s, i + 1, Append(cur, s[i]), sep)
    ELSE IF i > 1 /\ IsProtected(s[i - 1]) = sep THEN ReSplit(s, i + 1, cur, sep)
    ELSE <<cur>> \o ReSplit(s, i + 1, <<>>, sep)

\* filter(lambda s: s != "", ...)
NonEmpty(parts) == SelectSeq(parts, LAMBDA p : p # <<>>)

\* split_non_empty of _DateParser.__init__
split_non_empty(content, sep) == NonEmpty(ReSplit(content, 1, <<>>, sep))

\* _DateParser(content): the parser's fields.
NewDateParser(content) ==
    [content |-> content,
     prot_tokens |-> split_non_empty(content, FALSE),
     std_tokens |-> split_non_empty(content, TRUE)]

\* '\s' on a content run: the space (the other white space characters a
\* content run may hold are not among the characters of the model).
IsSpace(c) == c = " "

\* The length of group 1 of __TRIM_TOKEN_PATTERN: the leading white space.
LeadLen(token) == StopBefore({j \in 1..Len(token) : ~IsSpace(token[j])}, Len(token))

\* The index before group 3, the trailing white space, the leading one
\* being lead characters long: the lazy group 2 ends at the last character
\* that is not white space, and is empty when the token is white space only.
CoreEnd(token, lead) ==
    IF lead = Len(token) THEN lead
    ELSE SetMax({j \in 1..Len(token) : ~IsSpace(token[j])})

\* _DateParser.__trim_token: (content, (prefix_whitespace, suffix_whitespace))
TrimParts(token, lead, coreEnd) ==
    [core |-> SubSeq(token, lead + 1, coreEnd),
     lead |-> SubSeq(token, 1, lead),
     trail |-> SubSeq(token, coreEnd + 1, Len(token))]

trim_token(token) ==
    TrimParts(token, LeadLen(token), CoreEnd(token, LeadLen(token)))

\* dateutil's parse is not part of the repository; the model stands for it
\* with a recognizer of its own. A character belongs to the date when it is
\* a digit, or a '-' between two digits.
IsDateChar(s, j) ==
    \/ IsDigit(s[j])
    \/ /\ s[j] = "-" /\ j > 1 /\ j < Len(s)
       /\ IsDigit(s[j - 1]) /\ IsDigit(s[j + 1])

\* The substrings the recognizer did not use, in order: the maximal runs
\* of characters that do not belong to a date.
RECURSIVE SkippedRuns(_, _, _)
SkippedRuns(s, i, cur) ==
    IF i > Len(s) THEN <<cur>>
    ELSE IF IsDateChar(s, i) THEN <<cur>> \o SkippedRuns(s, i + 1, <<>>)
    ELSE SkippedRuns(s, i + 1, Append(cur, s[i]))

\* parse_date(token, fuzzy_with_tokens=True): ValueError when the token
\* holds no date, else the unused substrings (the datetime is not read).
parse_date(token) ==
    IF \E j \in 1..Len(token) : IsDigit(token[j])
    THEN [raised |-> "none", parts |-> NonEmpty(SkippedRuns(token, 1, <<>>))]
    ELSE [raised |-> "ValueError", parts |-> <<>>]

\* The first loop of prefix_suffix_from_parts: parts move from the front of
\* deq into prefix while source starts with them.
RECURSIVE FrontWalk(_, _, _)
FrontWalk(source, deq, prefix) ==
    IF deq = <<>> THEN [source |-> source, deq |-> deq, prefix |-> prefix]
    ELSE IF StartsWith(source, Head(deq))
         THEN FrontWalk(SubSeq(source, Len(Head(deq)) + 1, Len(source)),
                        Tail(deq), prefix \o Head(deq))
    ELSE [source |-> source, deq |-> deq, prefix |-> prefix]

\* The second loop: parts move from the back of deq into suffix while
\* source ends with them; source becomes source[:len(part)].
RECURSIVE BackWalk(_, _, _)
BackWalk(source, deq, suffix) ==
    IF deq = <<>> THEN suffix
    ELSE IF EndsWith(source, deq[Len(deq)])
         THEN BackWalk(SubSeq(source, 1, Len(deq[Len(deq)])),
                       SubSeq(deq, 1, Len(deq) - 1),
                       deq[Len(deq)] \o suffix)
    ELSE suffix

\* The result of the two loops, the first having ended in front.
PrefixSuffix(front) ==
    [prefix |-> front.prefix, suffix |-> BackWalk(front.source, front.deq, <<>>)]

\* _DateParser.prefix_suffix_from_parts(token, parts)
prefix_suffix_from_parts(token, parts) ==
    PrefixSuffix(FrontWalk(token, NonEmpty(parts), <<>>))

\* f"{whitespace[0]}{prefix}{date}{suffix}{whitespace[1]}"
InjectedToken(trim, ps, date) ==
    trim.lead \o ps.prefix \o date \o ps.suffix \o trim.trail

\* The body of the try block of inject_date for one token, already trimmed.
InjectInto(trim, date) ==
    InjectedToken(trim, prefix_suffix_from_parts(trim.core, parse_date(trim.core).parts), date)

\* Whether parse_date accepts the token once it is trimmed.
HoldsDate(token) == parse_date(trim_token(token).core).raised = "none"

\* inject_date that goes on after the first date and injects into every
\* run that holds one.
inject_date_EveryRun(std_tokens, date) ==
    IF \A i \in 1..Len(std_tokens) : ~HoldsDate(std_tokens[i])
    THEN [raised |-> "ValueError", std_tokens |-> std_tokens, index |-> 0]
    ELSE [raised |-> "none",
          std_tokens |-> [i \in 1..Len(std_tokens) |->
                            IF HoldsDate(std_tokens[i])
                            THEN InjectInto(trim_token(std_tokens[i]), date)
                            ELSE std_tokens[i]],
          index |-> SetMin({i \in 1..Len(std_tokens) : HoldsDate(std_tokens[i])})]

\* The run the loop of inject_date stops at: the first that holds a date.
FirstDateRun(std_tokens) ==
    SetMin({i \in 1..Len(std_tokens) : HoldsDate(std_tokens[i])})

\* _DateParser.inject_date(date): the content runs after the call, the
\* index of the run injected into, or the ValueError of a line with no date.
inject_date(std_tokens, date) ==
    IF \A i \in 1..Len(std_tokens) : ~HoldsDate(std_tokens[i])
    THEN [raised |-> "ValueError", std_tokens |-> std_tokens, index |-> 0]
    ELSE [raised |-> "none",
          std_tokens |-> [std_tokens EXCEPT ![FirstDateRun(std_tokens)] =
                            InjectInto(trim_token(std_tokens[FirstDateRun(std_tokens)]), date)],
          index |-> FirstDateRun(std_tokens)]

\* _DateParser.__zipper_merge(a, b) that stops at the end of the shorter.
RECURSIVE zipper_merge_DropsRest(_, _)
zipper_merge_DropsRest(a, b) ==
    IF a = <<>> \/ b = <<>> THEN <<>>
    ELSE <<Head(a), Head(b)>> \o zipper_merge_DropsRest(Tail(a), Tail(b))

\* _DateParser.__zipper_merge(a, b)
RECURSIVE zipper_merge(_, _)
zipper_merge(a, b) ==
    IF a = <<>> \/ b = <<>> THEN a \o b
    ELSE <<Head(a), Head(b)>> \o zipper_merge(Tail(a), Tail(b))

\* _DateParser.rebuild(): [raised, ret]; prot[0] of an empty list raises.
rebuild(content, prot, std) ==
    IF Len(prot) > Len(std)
    THEN [raised |-> "none", ret |-> Join(zipper_merge(prot, std))]
    ELSE IF Len(std) > Len(prot)
    THEN [raised |-> "none", ret |-> Join(zipper_merge(std, prot))]
    ELSE IF prot = <<>> THEN [raised |-> "IndexError", ret |-> <<>>]
    ELSE IF StartsWith(content, prot[1])
    THEN [raised |-> "none", ret |-> Join(zipper_merge(prot, std))]
    ELSE [raised |-> "none", ret |-> Join(zipper_merge(std, prot))]

\* The rest of DateInjector._substitute once inject_date has returned.
RebuildAfter(parser, injected) ==
    IF injected.raised # "none" THEN [raised |-> injected.raised, ret |-> <<>>]
    ELSE rebuild(parser.content, parser.prot_tokens, injected.std_tokens)

\* DateInjector._substitute(line): [raised, ret].
substitute_Date(date, line) ==
    RebuildAfter(NewDateParser(line),
                 inject_date(NewDateParser(line).std_tokens, date))

---------------------------------------------------------------------------
(* strftime and the two injectors' constructors. *)

\* '%m' and '%d': two digits.
Pad2(n) == IF n < 10 THEN <<"0">> \o StrInt(n) ELSE StrInt(n)

\* date.strftime("%Y-%m-%d"), for a year of four digits.
strftime(date) ==
    StrInt(date.year) \o <<"-">> \o Pad2(date.month) \o <<"-">> \o Pad2(date.day)

\* VersionInjector(version, marker)
NewVersionInjector(version, marker) ==
    [cls |-> "VersionInjector", version |-> version, marker |-> marker]

\* DateInjector(date, marker=marker), fmt at its default.
NewDateInjector(date, marker) ==
    [cls |-> "DateInjector", date |-> strftime(date), marker |-> marker]

\* self._substitute(line), by the class of the injector.
substitute(inj, line) ==
    IF inj.cls = "VersionInjector" THEN substitute_Version(inj.version, line)
    ELSE substitute_Date(inj.date, line)

---------------------------------------------------------------------------
(* LineInjector. A pass yields [raised, lines, changed, examined, applied]: *)
(* the exception that ended it or "none", the list of lines as the pass    *)
(* left it, the flag it returns, the indices (from 1) of the lines it      *)
(* looked for the marker in and of the lines it replaced.                  *)

RECURSIVE parse_loop(_, _, _, _, _, _)

\* Line 57 and 58 of the loop of __parse_file that goes on at the replaced
\* line instead of skipping it.
AfterSubstitute_NoSkip(inj, lines, i, examined, applied, r) ==
    IF r.raised # "none"
    THEN [raised |-> r.raised, lines |-> lines, changed |-> applied # {},
          examined |-> examined \cup {i}, applied |-> applied]
    ELSE parse_loop(inj, [lines EXCEPT ![i + 1] = r.ret], i + 1, TRUE,
                    examined \cup {i}, applied \cup {i + 1})

\* Line 57 and 58 of the loop of __parse_file, r being the outcome of
\* self._substitute(lines[i]) (the line at i + 1, counting from 1).
AfterSubstitute(inj, lines, i, examined, applied, r) ==
    IF r.raised # "none"
    THEN [raised |-> r.raised, lines |-> lines, changed |-> applied # {},
          examined |-> examined \cup {i}, applied |-> applied]
    ELSE parse_loop(inj, [lines EXCEPT ![i + 1] = r.ret], i + 2, TRUE,
                    examined \cup {i}, applied \cup {i + 1})

\* The loop of __parse_file from i on; the code's i counts from 0 and looks
\* at lines[i - 1], which is lines[i] here.
parse_loop(inj, lines, i, changed, examined, applied) ==
    IF ~(i < Len(lines))
    THEN [raised |-> "none", lines |-> lines, changed |-> changed,
          examined |-> examined, applied |-> applied]
    ELSE IF Contains(lines[i], inj.marker)
    THEN AfterSubstitute(inj, lines, i, examined, applied,
                         substitute(inj, lines[i + 1]))
    ELSE parse_loop(inj, lines, i + 1, changed, examined \cup {i}, applied)

\* __parse_file whose loop runs while i <= num_lines: it goes on to look at
\* the last line unless the line was skipped as a replaced one, and reads
\* past the end of the list when the last line holds the marker.
parse_file_LooksAtLast(inj, lines) ==
    IF ~require_non_none(inj.marker, NoneStr)
    THEN [raised |-> "ValueError", lines |-> lines, changed |-> FALSE,
          examined |-> {}, applied |-> {}]
    ELSE LET r == parse_loop(inj, lines, 1, FALSE, {}, {})
             n == Len(lines)
         IN  IF r.raised # "none" \/ n = 0 \/ n \in r.applied
             THEN r
             ELSE [r EXCEPT !.examined = @ \cup {n},
                            !.raised = IF Contains(lines[n], inj.marker)
                                       THEN "IndexError" ELSE "none"]

\* LineInjector.__parse_file(lines)
parse_file(inj, lines) ==
    IF ~require_non_none(inj.marker, NoneStr)
    THEN [raised |-> "ValueError", lines |-> lines, changed |-> FALSE,
          examined |-> {}, applied |-> {}]
    ELSE parse_loop(inj, lines, 1, FALSE, {}, {})

\* No file at the path.
NoFile == <<"ENOENT">>

\* inject that empties the file before it looks for the marker.
inject_TruncatesFirst(file, pass) ==
    IF file = NoFile
    THEN [raised |-> "FileNotFoundError", file |-> file, pass |-> pass]
    ELSE IF pass.raised # "none"
    THEN [raised |-> pass.raised, file |-> <<>>, pass |-> pass]
    ELSE IF ~pass.changed
    THEN [raised |-> "RuntimeError", file |-> <<>>, pass |-> pass]
    ELSE [raised |-> "none", file |-> writelines(pass.lines), pass |-> pass]

\* inject that writes the lines back whatever the outcome of the pass.
inject_WritesAlways(file, pass) ==
    IF file = NoFile
    THEN [raised |-> "FileNotFoundError", file |-> file, pass |-> pass]
    ELSE IF pass.raised # "none"
    THEN [raised |-> pass.raised, file |-> writelines(pass.lines), pass |-> pass]
    ELSE IF ~pass.changed
    THEN [raised |-> "RuntimeError", file |-> writelines(pass.lines), pass |-> pass]
    ELSE [raised |-> "none", file |-> writelines(pass.lines), pass |-> pass]

\* LineInjector.inject(path) from line 72 on, the file holding the bytes
\* file and pass being the outcome of self.__parse_file(file.readlines()):
\* [raised, file, pass], file the bytes once the call is over.
inject(file, pass) ==
    IF file = NoFile
    THEN [raised |-> "FileNotFoundError", file |-> file, pass |-> pass]
    ELSE IF pass.raised # "none"
    THEN [raised |-> pass.raised, file |-> file, pass |-> pass]
    ELSE IF ~pass.changed
    THEN [raised |-> "RuntimeError", file |-> file, pass |-> pass]
    ELSE [raised |-> "none", file |-> writelines(pass.lines), pass |-> pass]


---------------------------------------------------------------------------
(* Program. cmd tells whether the command resolves on the PATH. execute    *)
(* runs as three threads next to the child process: the caller (main) and  *)
(* the two line readers (out, err). script is what the child has yet to    *)
(* write, pipe[t] the characters written to a stream and not yet read,     *)
(* wrote[t] all the characters written to it, got[t] the arguments the     *)
(* stream's callback was called with, held[t] the line a reader holds.     *)

Streams == {"out", "err"}

\* line.strip(): the line without its leading and trailing white space.
strip(ln) ==
    IF \A j \in 1..Len(ln) : IsSpace(ln[j]) \/ IsProtected(ln[j]) THEN <<>>
    ELSE SubSeq(ln,
                SetMin({j \in 1..Len(ln) : ~(IsSpace(ln[j]) \/ IsProtected(ln[j]))}),
                SetMax({j \in 1..Len(ln) : ~(IsSpace(ln[j]) \/ IsProtected(ln[j]))}))

\* Program.exists(required): [raised, ret].
exists(found, required) ==
    IF required /\ ~found THEN [raised |-> "RuntimeError", ret |-> "None"]
    ELSE [raised |-> "none", ret |-> PyBool(found)]

\* Program.runnable(required, params): subprocess.run raises when the
\* command cannot be started, else returncode is the child's exit status.
runnable(found, returncode, required) ==
    IF ~found THEN [raised |-> "FileNotFoundError", ret |-> "None"]
    ELSE IF required /\ ~(returncode = 0)
    THEN [raised |-> "RuntimeError", ret |-> "None"]
    ELSE [raised |-> "none", ret |-> PyBool(returncode = 0)]

\* A join that does not wait for the thread.
Joinable_NoWait(state) == state \in {"read", "call", "done"}

\* Thread.join() returns once the thread's target has returned.
Joinable(state) == state = "done"

---------------------------------------------------------------------------
(* Inputs. *)

\* The members of the enum Bump, by name.
BumpKinds == {"MAJOR", "MINOR", "PATCH"}

\* The amounts passed to bump: negative, zero and positive.
Amounts == (-1)..MaxAmount

Alphabet == {"0", "1", ".", "-", "b"}

\* The version strings of the tests, and strings whose build tag or
\* surrounding text holds digits, dots, hyphens and line feeds.
Examples ==
    { <<"v", "2", ".", "9">>,
      <<"3", "4", ".", "9", "9", "9", ".", "5">>,
      <<"v", "0", "1", ".", "1", "2", ".", "0", "0", "0", "1", "-",
        "v", "a", "n", "i", "l", "l", "a">>,
      <<"1", ".", "2", ".", "3", "-", "b", "e", "t", "a">>,
      <<"v", "1", ".", "2", ".", "3", "-", "a", "l", "p", "h", "a">>,
      <<"2", ".", "0", ".", "1", "-", "b", "a", "t", "c", "h">>,
      <<"5", "0", "5", ".", "0", "9", ".", "1">>,
      <<"5", ".", "0", "-", "a", "l", "p", "h", "a">>,
      <<"1", ".", "2", "-", "3", ".", "4", ".", "5">>,
      <<"1", ".", "2", "-", "a", "-", "1", ".", "3", "-", "b">>,
      <<"1", ".", "2", " ", "&", " ", "3", ".", "4", ".", "5">>,
      <<"0", ".", "1", "-", "b", ".", "3", ".", "4", ".", "5">>,
      <<"1", ".", "2", "-", "-", "b">>,
      <<"a", "\n", "1", ".", "2">>,
      <<"1", ".", "2", "\n", "-", "b">>,
      <<"1", ".", "2", "-", "b", "\n", "c">>,
      NoneStr }

\* Every string over Alphabet of at most MaxLen characters, and Examples.
InputStrings ==
    UNION {[1..n -> Alphabet] : n \in 0..MaxLen} \cup Examples

\* major.minor, major.minor.patch, and both with the build tag, for every
\* field value up to MaxPairNum.
PairInputs(tag) ==
    LET nums == {StrInt(n) : n \in 0..MaxPairNum}
        mm == {a \o <<".">> \o b : a \in nums, b \in nums}
        mmp == {x \o <<".">> \o c : x \in mm, c \in nums}
    IN  (mm \cup mmp) \cup {x \o <<"-">> \o tag : x \in mm \cup mmp}

Ids == {1, 2}

---------------------------------------------------------------------------
(* The state machine. heap[i] is the object variable i refers to, NoObj    *)
(* before its construction; ctorBuild[i] is the build tag heap[i] was      *)
(* constructed with; last records the latest call, its arguments, the      *)
(* receiver before it and its outcome; savedArg is the argument of the     *)
(* latest save, as it was at the call.                                     *)

NoCall == [op |-> "none"]

InitObjects ==
    /\ heap = [i \in Ids |-> NoObj]
    /\ ctorBuild = [i \in Ids |-> NoneStr]
    /\ last = NoCall
    /\ savedArg = NoObj

\* No file for the injectors and no line.
NoInject == sample = NoFile /\ candidate = <<>>

\* No command and no process.
NoProgram ==
    /\ cmd = "absent"
    /\ script = <<>>
    /\ pipe = [t \in Streams |-> <<>>]
    /\ wrote = [t \in Streams |-> <<>>]
    /\ got = [t \in Streams |-> <<>>]
    /\ held = [t \in Streams |-> <<>>]
    /\ pc = [main |-> "idle", out |-> "idle", err |-> "idle"]
    /\ child = [state |-> "none", returncode |-> 0]

Init ==
    /\ InitObjects
    /\ dirKind = "dir"
    /\ fileKind = "missing"
    /\ blob = NoBlob
    /\ NoInject /\ NoProgram

\* The directory and the file as the serializer may find them.
InitStore ==
    /\ InitObjects
    /\ dirKind \in {"missing", "dir", "file"}
    /\ fileKind \in (IF dirKind = "dir" THEN {"missing", "dir", "file"} ELSE {"missing"})
    /\ blob = IF fileKind = "file" THEN GarbageBlob ELSE NoBlob
    /\ NoInject /\ NoProgram

\* heap[i] = Version(s), for s among inputs.
Construct(i, inputs) ==
    /\ heap[i] = NoObj
    /\ \E s \in inputs :
          LET r == VersionNew(s)
          IN  /\ heap' = [heap EXCEPT ![i] = r.obj]
              /\ ctorBuild' = [ctorBuild EXCEPT ![i] = build(r.obj)]
              /\ last' = [op |-> "new", id |-> i, raised |-> r.raised]
    /\ UNCHANGED <<dirKind, fileKind, blob, savedArg>>
    /\ UNCHANGED <<injectVars, programVars>>

\* The larger of a field's value and the cap.
CapOf(field, cap) == IF field > cap THEN field ELSE cap

\* No field rises above cap (a field parsed above it does not rise at all):
\* Python's integers are unbounded.
WithinCap(old, new, cap) ==
    /\ major(new) <= CapOf(major(old), cap)
    /\ minor(new) <= CapOf(minor(old), cap)
    /\ patch(new) <= CapOf(patch(old), cap)

\* heap[i].bump(bump, increase)
BumpStep(i, cap) ==
    /\ heap[i] # NoObj
    /\ \E bump \in BumpKinds \cup {NoBump}, increase \in Amounts :
          LET r == bump_dispatch(heap[i], bump, increase)
          IN  /\ WithinCap(heap[i], r.obj, cap)
              /\ heap' = [heap EXCEPT ![i] = r.obj]
              /\ last' = [op |-> "bump", id |-> i, bump |-> bump,
                          increase |-> increase, pre |-> heap[i],
                          raised |-> r.raised, ret |-> r.ret]
    /\ UNCHANGED <<ctorBuild, dirKind, fileKind, blob, savedArg>>
    /\ UNCHANGED <<injectVars, programVars>>

\* Version(str(heap[i])), as test_version_8 builds v3.
Reparse(i) ==
    /\ heap[i] # NoObj
    /\ LET r == VersionNew(Str(heap[i]))
       IN  last' = [op |-> "reparse", id |-> i, raised |-> r.raised, res |-> r.obj]
    /\ UNCHANGED <<heap, ctorBuild, dirKind, fileKind, blob, savedArg>>
    /\ UNCHANGED <<injectVars, programVars>>

\* heap[i] op heap[j]
Compare(i, j) ==
    /\ heap[i] # NoObj /\ heap[j] # NoObj
    /\ \E op \in {"==", "!=", "<", ">", "<=", ">="} :
          last' = [op |-> "compare", l |-> i, r |-> j, cmp |-> op,
                   ret |-> RichCompare(heap[i], heap[j], op)]
    /\ UNCHANGED <<heap, ctorBuild, dirKind, fileKind, blob, savedArg>>
    /\ UNCHANGED <<injectVars, programVars>>

\* serializer.save(heap[i])
Save(i) ==
    /\ heap[i] # NoObj
    /\ LET r == save(heap[i])
       IN  /\ fileKind' = r.fileKind
           /\ blob' = r.blob
           /\ last' = [op |-> "save", id |-> i, raised |-> r.raised]
    /\ savedArg' = heap[i]
    /\ UNCHANGED <<heap, ctorBuild, dirKind>>
    /\ UNCHANGED <<injectVars, programVars>>

\* serializer.save(None)
SaveNone ==
    /\ LET r == save(NoObj)
       IN  /\ fileKind' = r.fileKind
           /\ blob' = r.blob
           /\ last' = [op |-> "save", id |-> 0, raised |-> r.raised]
    /\ savedArg' = NoObj
    /\ UNCHANGED <<heap, ctorBuild, dirKind>>
    /\ UNCHANGED <<injectVars, programVars>>

\* heap[2] = serializer.load()
Load ==
    /\ LET r == load
       IN  /\ heap' = IF r.raised = "none" THEN [heap EXCEPT ![2] = r.obj] ELSE heap
           /\ ctorBuild' = IF r.raised = "none"
                            THEN [ctorBuild EXCEPT ![2] = build(r.obj)] ELSE ctorBuild
           /\ last' = [op |-> "load", raised |-> r.raised]
    /\ UNCHANGED <<dirKind, fileKind, blob, savedArg>>
    /\ UNCHANGED <<injectVars, programVars>>

\* serializer.loadable()
Loadable ==
    /\ last' = [op |-> "loadable", raised |-> loadable.raised, ret |-> loadable.ret]
    /\ UNCHANGED <<heap, ctorBuild, dirKind, fileKind, blob, savedArg>>
    /\ UNCHANGED <<injectVars, programVars>>

\* file_path.unlink(missing_ok=True), as the tests delete the file.
Unlink ==
    /\ fileKind' = IF fileKind = "file" THEN "missing" ELSE fileKind
    /\ blob' = NoBlob
    /\ last' = [op |-> "unlink",
                raised |-> IF fileKind = "dir" THEN "OSError" ELSE "none"]
    /\ UNCHANGED <<heap, ctorBuild, dirKind, savedArg>>
    /\ UNCHANGED <<injectVars, programVars>>

\* One version: constructed from any input string, bumped, rendered and
\* parsed again.
Next ==
    \/ Construct(1, InputStrings)
    \/ BumpStep(1, MaxNum)
    \/ Reparse(1)

Spec == Init /\ [][Next]_vars

\* Two versions, each bumped and compared with the other in both orders.
NextCmp ==
    \/ Construct(1, PairInputs(<<"a">>))
    \/ Construct(2, PairInputs(<<"b">>))
    \/ \E i \in Ids : BumpStep(i, MaxPairNum)
    \/ \E i \in Ids : Compare(i, 3 - i)

SpecCmp == Init /\ [][NextCmp]_vars

\* The versions saved by test_file_1.
StoreInputs ==
    { <<"2", ".", "9", ".", "1", "-", "b", "e", "t", "a">>,
      <<"5", "0", "5", ".", "0", "9", ".", "1">>,
      <<"5", ".", "0", "-", "a", "l", "p", "h", "a">>,
      <<"1", ".", "0">> }

\* One serializer: a version saved, loaded into a second variable, either
\* of them bumped and saved again.
NextStore ==
    \/ Construct(1, StoreInputs)
    \/ \E i \in Ids : BumpStep(i, MaxPairNum)
    \/ \E i \in Ids : Save(i)
    \/ SaveNone
    \/ Load
    \/ Loadable
    \/ Unlink

SpecStore == InitStore /\ [][NextStore]_vars

---------------------------------------------------------------------------
(* The injectors' state machine. sample is the content of the file the     *)
(* injectors work on (the tests' Sample1Test.txt), NoFile when there is    *)
(* none; candidate is the line a strategy is applied to directly.          *)

\* The marker the injectors are built with (any str may be passed).
Marker == <<"#", "!">>

\* The lines the sample files are made of.
SampleLines ==
    { <<"#", "!", "\n">>,
      <<"#", "!", " ", "v", "1", ".", "2", "\n">>,
      <<"v", "1", ".", "0">>,
      <<"b", "\n">>,
      <<"\t", "1", " ", "a", "\f", "2", "\r", "\n">> }

\* The files of n lines.
RECURSIVE FilesOf(_)
FilesOf(n) ==
    IF n = 0 THEN {<<>>}
    ELSE {f \o l : f \in FilesOf(n - 1), l \in SampleLines}

SampleFiles == UNION {FilesOf(n) : n \in 0..MaxLines}

\* The version test_file_3 injects.
InjectVersions ==
    { <<"v", "2", "2", ".", "0", ".", "0", "-", "b", "a", "t", "c", "h">> }

\* The date test_date_inject_1 injects.
InjectDates == { [year |-> 2024, month |-> 3, day |-> 15] }

\* injector.inject(path) on the sample file.
Inject(inj) ==
    /\ LET r == inject(sample, parse_file(inj, readlines(sample)))
       IN  /\ sample' = r.file
           /\ last' = [op |-> "inject", inj |-> inj, pre |-> sample,
                       raised |-> r.raised, pass |-> r.pass]
    /\ UNCHANGED <<versionVars, candidate, programVars>>

\* VersionInjector(heap[1], Marker).inject(path)
InjectVersion ==
    /\ heap[1] # NoObj
    /\ Inject(NewVersionInjector(heap[1], Marker))

\* DateInjector(date, marker=Marker).inject(path)
InjectDate == \E date \in InjectDates : Inject(NewDateInjector(date, Marker))

\* sample1_path.unlink(missing_ok=True), as the tests clear their files.
UnlinkSample ==
    /\ sample' = NoFile
    /\ last' = [op |-> "unlink", raised |-> "none"]
    /\ UNCHANGED <<versionVars, candidate, programVars>>

InitInject ==
    /\ InitObjects
    /\ dirKind = "dir" /\ fileKind = "missing" /\ blob = NoBlob
    /\ sample \in SampleFiles
    /\ candidate = <<>>
    /\ NoProgram

NextInject ==
    \/ Construct(1, InjectVersions)
    \/ InjectVersion
    \/ InjectDate
    \/ UnlinkSample

SpecInject == InitInject /\ [][NextInject]_vars

---------------------------------------------------------------------------
(* The strategies applied to one line. *)

\* The versions test_file_2 and test_file_3 inject.
LineVersions ==
    { <<"v", "9", ".", "9", "9", ".", "9", "9", "9">>,
      <<"v", "2", "2", ".", "0", ".", "0", "-", "b", "a", "t", "c", "h">> }

\* The date test_date_inject_1 injects, and one with two digits a field.
Dates ==
    { [year |-> 2024, month |-> 3, day |-> 15],
      [year |-> 2023, month |-> 12, day |-> 1] }

LineAlphabet == {"1", "a", " ", "-", "\t", "\n"}

\* The strings over LineAlphabet of length n.
RECURSIVE LinesOf(_)
LinesOf(n) ==
    IF n = 0 THEN {<<>>}
    ELSE {Append(s, c) : s \in LinesOf(n - 1), c \in LineAlphabet}

\* What may stand before a version token, the tokens, and what may follow.
Befores == { <<>>, <<"a", " ">>, <<"a", "\t">>, <<"\t", "'">>, <<"v", "1", ".">>,
             <<"v", "1", ".", "1", " ">>, <<"a", "\n">> }

Tokens == { <<"v", "1", ".", "1", ".", "1", "-", "a">>, <<"v", "1", ".", "1", "-", "a">>,
            <<"v", "1", ".", "1", ".", "1">>, <<"v", "1", ".", "1">>,
            <<"v", "1">>, <<"1", ".", "1">>, <<"2", "-", "3">> }

Afters == { <<>>, <<"\n">>, <<"'", "\n">>, <<".", "1">>, <<"-", "a", "\n">>,
            <<"\t", "v", "1", ".", "1", ".", "1", "\n">>, <<" ", "\f", " ", "2", " ", "\n">> }

LineInputs ==
    (UNION {LinesOf(n) : n \in 0..MaxLineLen})
        \cup {b \o t \o a : b \in Befores, t \in Tokens, a \in Afters}

\* VersionInjector(heap[1])._substitute(line); the line becomes the result.
SubstituteVersion ==
    /\ heap[1] # NoObj
    /\ LET r == substitute_Version(heap[1], candidate)
       IN  /\ candidate' = IF r.raised = "none" THEN r.ret ELSE candidate
           /\ last' = [op |-> "substitute", cls |-> "VersionInjector",
                       pre |-> candidate, raised |-> r.raised, ret |-> r.ret]
    /\ UNCHANGED <<versionVars, sample, programVars>>

\* DateInjector(date)._substitute(line); the line becomes the result. index
\* is the content run inject_date stopped at.
SubstituteDate ==
    /\ \E date \in Dates :
          LET r == substitute_Date(strftime(date), candidate)
          IN  /\ candidate' = IF r.raised = "none" THEN r.ret ELSE candidate
              /\ last' = [op |-> "substitute", cls |-> "DateInjector",
                          pre |-> candidate, raised |-> r.raised, ret |-> r.ret,
                          index |-> inject_date(NewDateParser(candidate).std_tokens,
                                                strftime(date)).index]
    /\ UNCHANGED <<versionVars, sample, programVars>>

\* _DateParser(line).rebuild(), no date injected.
Rebuild ==
    /\ LET p == NewDateParser(candidate)
           r == rebuild(candidate, p.prot_tokens, p.std_tokens)
       IN  last' = [op |-> "rebuild", content |-> candidate, prot |-> p.prot_tokens,
                    std |-> p.std_tokens, raised |-> r.raised, ret |-> r.ret]
    /\ UNCHANGED <<versionVars, sample, candidate, programVars>>

InitLine ==
    /\ InitObjects
    /\ dirKind = "dir" /\ fileKind = "missing" /\ blob = NoBlob
    /\ sample = NoFile
    /\ candidate \in LineInputs
    /\ NoProgram

NextLine ==
    \/ Construct(1, LineVersions)
    \/ SubstituteVersion
    \/ SubstituteDate
    \/ Rebuild

SpecLine == InitLine /\ [][NextLine]_vars

---------------------------------------------------------------------------
(* prefix_suffix_from_parts on its own. *)

\* The fragments and the dates prefix_suffix_from_parts is called with.
Fragments == { <<"x">>, <<" ", "y">>, <<"o", "n", " ">> }

RECURSIVE FragmentLists(_)
FragmentLists(n) ==
    IF n = 0 THEN {<<>>}
    ELSE FragmentLists(n - 1)
            \cup {Append(fs, f) : fs \in FragmentLists(n - 1), f \in Fragments}

DateTexts == { <<"1">>, <<"2", "0", "2", "3", "-", "0", "9", "-", "2", "4">> }

\* _DateParser.prefix_suffix_from_parts(token, parts) for the token made of
\* the fragments front, a date and the fragments back, parts being the
\* fragments in their order.
Peel ==
    /\ \E front \in FragmentLists(MaxFragments), back \in FragmentLists(MaxFragments),
          date \in DateTexts :
          LET r == prefix_suffix_from_parts(Join(front) \o date \o Join(back),
                                            front \o back)
          IN  last' = [op |-> "peel", front |-> front, back |-> back,
                       date |-> date, prefix |-> r.prefix, suffix |-> r.suffix]
    /\ UNCHANGED <<versionVars, sample, candidate, programVars>>

NextPeel == Peel

SpecPeel == Init /\ [][NextPeel]_vars

---------------------------------------------------------------------------
(* Program's state machine. *)

\* What the child may write in one call: to stdout or to stderr, whole
\* lines, the start of a line, or the end of one.
Writes ==
    { <<"out", <<"o", "\n">>>>, <<"out", <<" ", "p">>>>, <<"out", <<"\n">>>>,
      <<"err", <<"e", "\n">>>>, <<"err", <<"f">>>> }

RECURSIVE ScriptsOf(_)
ScriptsOf(n) ==
    IF n = 0 THEN {<<>>}
    ELSE ScriptsOf(n - 1) \cup {Append(s, w) : s \in ScriptsOf(n - 1), w \in Writes}

\* program.exists(required)
Exists ==
    /\ pc.main = "idle"
    /\ \E required \in BOOLEAN :
          LET r == exists(cmd = "present", required)
          IN  last' = [op |-> "exists", required |-> required,
                       raised |-> r.raised, ret |-> r.ret]
    /\ UNCHANGED <<versionVars, injectVars, programVars>>

\* program.runnable(required, params); the exit status of the run depends
\* on the program and on params.
Runnable ==
    /\ pc.main = "idle"
    /\ \E required \in BOOLEAN, returncode \in {0, 1} :
          LET r == runnable(cmd = "present", returncode, required)
          IN  last' = [op |-> "runnable", required |-> required,
                       returncode |-> returncode,
                       raised |-> r.raised, ret |-> r.ret]
    /\ UNCHANGED <<versionVars, injectVars, programVars>>

\* execute, line 83: subprocess.Popen starts the child, or raises.
Popen ==
    /\ pc.main = "idle"
    /\ IF cmd = "present"
       THEN /\ pc' = [pc EXCEPT !.main = "spawned"]
            /\ child' = [state |-> "running", returncode |-> 0]
            /\ last' = [op |-> "execute", raised |-> "none", ret |-> "running"]
       ELSE /\ pc' = [pc EXCEPT !.main = "raised"]
            /\ child' = child
            /\ last' = [op |-> "execute", raised |-> "FileNotFoundError", ret |-> "None"]
    /\ UNCHANGED <<versionVars, injectVars, cmd, script, pipe, wrote, got, held>>

\* execute, lines 95 and 96: stdout_thread.start(), then stderr_thread.start().
StartThread(t) ==
    /\ pc.main = (IF t = "out" THEN "spawned" ELSE "started_out")
    /\ pc' = [pc EXCEPT !.main = IF t = "out" THEN "started_out" ELSE "started_err",
                    ![t] = "read"]
    /\ UNCHANGED <<versionVars, injectVars, cmd, script, pipe, wrote, got, held, child, last>>

\* The child writes to one of its streams.
ChildWrite ==
    /\ child.state = "running" /\ script # <<>>
    /\ pipe' = [pipe EXCEPT ![Head(script)[1]] = @ \o Head(script)[2]]
    /\ wrote' = [wrote EXCEPT ![Head(script)[1]] = @ \o Head(script)[2]]
    /\ script' = Tail(script)
    /\ UNCHANGED <<versionVars, injectVars, cmd, got, held, pc, child, last>>

\* The child exits, which closes its ends of the pipes.
ChildExit ==
    /\ child.state = "running" /\ script = <<>>
    /\ \E returncode \in {0, 1} :
          child' = [state |-> "exited", returncode |-> returncode]
    /\ UNCHANGED <<versionVars, injectVars, cmd, script, pipe, wrote, got, held, pc, last>>

\* line_reader, line 86 to 88: pipe.readline() returns once a whole line is
\* there, or what is left at the end of the stream ('' when nothing is).
ReadLine(t) ==
    /\ pc[t] = "read"
    /\ \/ /\ Contains(pipe[t], <<"\n">>)
          /\ held' = [held EXCEPT ![t] = SubSeq(pipe[t], 1, LineEnd(pipe[t]))]
          /\ pipe' = [pipe EXCEPT ![t] = SubSeq(@, LineEnd(@) + 1, Len(@))]
          /\ pc' = [pc EXCEPT ![t] = "call"]
       \/ /\ ~Contains(pipe[t], <<"\n">>) /\ child.state = "exited"
          /\ held' = [held EXCEPT ![t] = pipe[t]]
          /\ pipe' = [pipe EXCEPT ![t] = <<>>]
          /\ pc' = [pc EXCEPT ![t] = IF pipe[t] = <<>> THEN "done" ELSE "call"]
    /\ UNCHANGED <<versionVars, injectVars, cmd, script, wrote, got, child, last>>

\* line_reader, line 89: cb(line.strip())
Callback(t) ==
    /\ pc[t] = "call"
    /\ got' = [got EXCEPT ![t] = Append(@, strip(held[t]))]
    /\ pc' = [pc EXCEPT ![t] = "read"]
    /\ UNCHANGED <<versionVars, injectVars, cmd, script, pipe, wrote, held, child, last>>

\* execute, line 97: process.wait()
Wait ==
    /\ pc.main = "started_err"
    /\ child.state = "exited"
    /\ pc' = [pc EXCEPT !.main = "waited"]
    /\ UNCHANGED <<versionVars, injectVars, cmd, script, pipe, wrote, got, held, child, last>>

\* execute, lines 98 and 99: stdout_thread.join(), then stderr_thread.join().
JoinThread(t) ==
    /\ pc.main = (IF t = "out" THEN "waited" ELSE "joined_out")
    /\ Joinable(pc[t])
    /\ pc' = [pc EXCEPT !.main = IF t = "out" THEN "joined_out" ELSE "joined_err"]
    /\ UNCHANGED <<versionVars, injectVars, cmd, script, pipe, wrote, got, held, child, last>>

\* execute, line 101: return process.returncode
ExecuteReturn ==
    /\ pc.main = "joined_err"
    /\ pc' = [pc EXCEPT !.main = "returned"]
    /\ last' = [op |-> "execute", raised |-> "none", ret |-> child.returncode]
    /\ UNCHANGED <<versionVars, injectVars, cmd, script, pipe, wrote, got, held, child>>

InitProgram ==
    /\ InitObjects
    /\ dirKind = "dir" /\ fileKind = "missing" /\ blob = NoBlob
    /\ sample = NoFile /\ candidate = <<>>
    /\ cmd \in {"absent", "present"}
    /\ script \in ScriptsOf(MaxWrites)
    /\ pipe = [t \in Streams |-> <<>>]
    /\ wrote = [t \in Streams |-> <<>>]
    /\ got = [t \in Streams |-> <<>>]
    /\ held = [t \in Streams |-> <<>>]
    /\ pc = [main |-> "idle", out |-> "idle", err |-> "idle"]
    /\ child = [state |-> "none", returncode |-> 0]

NextProgram ==
    \/ Exists
    \/ Runnable
    \/ Popen
    \/ \E t \in Streams : StartThread(t)
    \/ ChildWrite
    \/ ChildExit
    \/ \E t \in Streams : ReadLine(t)
    \/ \E t \in Streams : Callback(t)
    \/ Wait
    \/ \E t \in Streams : JoinThread(t)
    \/ ExecuteReturn

SpecProgram == InitProgram /\ [][NextProgram]_vars

---------------------------------------------------------------------------
(* The properties checked. *)

\* (major, minor, patch-or-0)
Triple(o) == <<major(o), minor(o), patch(o)>>

\* t is lexicographically greater than u.
LexGreater(t, u) ==
    \/ t[1] > u[1]
    \/ t[1] = u[1] /\ t[2] > u[2]
    \/ t[1] = u[1] /\ t[2] = u[2] /\ t[3] > u[3]

\* The shape carries a patch field: _VersionPatch, bare or decorated.
HasPatch(o) ==
    \/ o.cls = "_VersionPatch"
    \/ o.cls = "_VersionBuildDC" /\ o.__decorated.cls = "_VersionPatch"

\* The receiver of the latest call, as it is after the call.
Receiver == heap[last.id]

\* C1: two versions of any shapes with equal (major, minor, patch-or-0)
\* compare ==, and neither > nor <, whatever their build tags and whichever
\* is the left operand.
C1_EqualTriplesCompareEqual ==
    (last.op = "compare" /\ Triple(heap[last.l]) = Triple(heap[last.r])) =>
        /\ last.cmp = "==" => last.ret = "True"
        /\ last.cmp \in {">", "<"} => last.ret = "False"

\* C2: a > b exactly when the triple of a is lexicographically greater than
\* the triple of b, the patch of a plain shape taken as 0.
C2_GreaterIsLexicographic ==
    (last.op = "compare" /\ last.cmp = ">") =>
        last.ret = PyBool(LexGreater(Triple(heap[last.l]), Triple(heap[last.r])))

\* C2's case: a decorated patch-carrying version found greater than a plain
\* one with the same major and minor.
C2_Witness ==
    /\ last.op = "compare" /\ last.cmp = ">"
    /\ heap[last.l].cls = "_VersionBuildDC" /\ HasPatch(heap[last.l])
    /\ heap[last.r].cls = "_Version"
    /\ major(heap[last.l]) = major(heap[last.r])
    /\ minor(heap[last.l]) = minor(heap[last.r])
    /\ last.ret = "True"

\* C3: bump(MAJOR, amount) with amount >= 1 adds amount to major, sets minor
\* to 0, sets the patch to 0 where the shape carries one, and returns the
\* rendering of the new state.
C3_BumpMajor ==
    (last.op = "bump" /\ last.bump = "MAJOR" /\ last.increase >= 1) =>
        /\ last.raised = "none"
        /\ major(Receiver) = major(last.pre) + last.increase
        /\ minor(Receiver) = 0
        /\ HasPatch(last.pre) => patch(Receiver) = 0
        /\ last.ret = Str(Receiver)

\* C3's case: MAJOR by 2 on a decorated patch-carrying version whose minor
\* and patch were not 0.
C3_Witness ==
    /\ last.op = "bump" /\ last.bump = "MAJOR" /\ last.increase = 2
    /\ last.pre.cls = "_VersionBuildDC" /\ HasPatch(last.pre)
    /\ minor(last.pre) > 0 /\ patch(last.pre) > 0
    /\ last.raised = "none"

\* C4: bump(MINOR, amount) with amount >= 1 adds amount to minor, leaves
\* major, sets the patch to 0 where the shape carries one, and returns the
\* rendering of the new state.
C4_BumpMinor ==
    (last.op = "bump" /\ last.bump = "MINOR" /\ last.increase >= 1) =>
        /\ last.raised = "none"
        /\ minor(Receiver) = minor(last.pre) + last.increase
        /\ major(Receiver) = major(last.pre)
        /\ HasPatch(last.pre) => patch(Receiver) = 0
        /\ last.ret = Str(Receiver)

\* C4's case: MINOR on a patch-carrying version whose patch was not 0.
C4_Witness ==
    /\ last.op = "bump" /\ last.bump = "MINOR" /\ last.increase = 1
    /\ last.pre.cls = "_VersionPatch" /\ patch(last.pre) > 0
    /\ major(last.pre) > 0
    /\ last.raised = "none"

\* C5: bump(PATCH, amount) with amount >= 1 on a patch-carrying version,
\* decorated or not, adds amount to the patch, leaves major and minor, and
\* returns the rendering of the new state.
C5_BumpPatch ==
    (/\ last.op = "bump" /\ last.bump = "PATCH" /\ last.increase >= 1
     /\ HasPatch(last.pre)) =>
        /\ last.raised = "none"
        /\ patch(Receiver) = patch(last.pre) + last.increase
        /\ major(Receiver) = major(last.pre)
        /\ minor(Receiver) = minor(last.pre)
        /\ last.ret = Str(Receiver)

\* C5's case: PATCH by 2 on a decorated patch-carrying version.
C5_Witness ==
    /\ last.op = "bump" /\ last.bump = "PATCH" /\ last.increase = 2
    /\ last.pre.cls = "_VersionBuildDC" /\ HasPatch(last.pre)
    /\ minor(last.pre) > 0
    /\ last.raised = "none"

\* C6: bump with an amount of 0 or less raises ValueError, for MAJOR, MINOR
\* and PATCH and for every shape.
C6_NonPositiveAmountRaises ==
    (last.op = "bump" /\ last.bump \in BumpKinds /\ last.increase < 1) =>
        last.raised = "ValueError"

\* C6's case: PATCH by 0 on a plain version, which has no patch to bump.
C6_Witness ==
    /\ last.op = "bump" /\ last.bump = "PATCH" /\ last.increase = 0
    /\ last.pre.cls = "_Version"
    /\ last.raised = "ValueError"

\* C7: a decorated version keeps the build tag it was constructed with
\* through every bump, and every rendering a bump returns ends with '-'
\* and that tag.
C7_BuildTagKept ==
    /\ \A i \in Ids : ctorBuild[i] # NoneStr =>
          heap[i].cls = "_VersionBuildDC" /\ build(heap[i]) = ctorBuild[i]
    /\ (last.op = "bump" /\ ctorBuild[last.id] # NoneStr /\ last.raised = "none") =>
          EndsWith(last.ret, <<"-">> \o ctorBuild[last.id])

\* C7's case: a bump of a decorated version that was bumped before (its
\* minor is 0 after a MAJOR bump) returns a rendering.
C7_Witness ==
    /\ last.op = "bump" /\ last.bump = "PATCH" /\ last.raised = "none"
    /\ ctorBuild[last.id] = <<"b", "e", "t", "a">>
    /\ major(Receiver) = 3 /\ minor(Receiver) = 0 /\ patch(Receiver) = 1

\* C8: parsing the rendering of a version reached by parsing and bumping
\* yields a version equal to it, with the same major, minor and patch, the
\* same presence of a patch field and the same build tag.
C8_RoundTrip ==
    last.op = "reparse" =>
        /\ last.raised = "none"
        /\ RichCompare(last.res, Receiver, "==") = "True"
        /\ major(last.res) = major(Receiver)
        /\ minor(last.res) = minor(Receiver)
        /\ patch(last.res) = patch(Receiver)
        /\ HasPatch(last.res) = HasPatch(Receiver)
        /\ build(last.res) = build(Receiver)

\* C8's case: the round trip of a bumped patch-carrying version whose build
\* tag itself reads as a version.
C8_Witness ==
    /\ last.op = "reparse" /\ last.raised = "none"
    /\ build(Receiver) = <<"3", ".", "4", ".", "5">>
    /\ HasPatch(Receiver) /\ minor(Receiver) = 3 /\ patch(Receiver) = 0

\* C9: load returns a version of the shape, major, minor, patch and build
\* tag the argument of the latest save had when it was saved, whatever was
\* saved before and whatever was bumped since.
C9_LoadReturnsLatestSave ==
    (last.op = "load" /\ last.raised = "none") =>
        /\ savedArg # NoObj
        /\ heap[2].cls = savedArg.cls
        /\ HasPatch(heap[2]) = HasPatch(savedArg)
        /\ Triple(heap[2]) = Triple(savedArg)
        /\ build(heap[2]) = build(savedArg)
        /\ heap[2] = savedArg

\* C9's case: a decorated version loaded as it was saved, after the saved
\* object was bumped, so that the two now differ.
C9_Witness ==
    /\ last.op = "load" /\ last.raised = "none"
    /\ heap[2].cls = "_VersionBuildDC"
    /\ build(heap[2]) = <<"a", "l", "p", "h", "a">>
    /\ Triple(heap[2]) = <<5, 0, 0>>
    /\ Triple(heap[1]) = <<5, 1, 0>>

\* C10: loadable never raises; it returns True exactly when the directory
\* exists and the file exists and is a regular file, and False otherwise.
C10_LoadableNeverRaises ==
    last.op = "loadable" =>
        /\ last.raised = "none"
        /\ last.ret = PyBool(dirKind = "dir" /\ fileKind = "file")

\* The lines the latest inject read.
PreLines == readlines(last.pre)

\* The latest call was an inject that found its file.
Ran == last.op = "inject" /\ last.pre # NoFile

\* What the strategy of the latest inject makes of line k as it was read.
Substituted(k) == substitute(last.inj, PreLines[k])

\* C11: in a pass, every line looked at that holds the marker and has a
\* line after it has the strategy applied to that next line, whose result
\* replaces it (or whose failure ends the pass), and the next line is not
\* looked at itself.
C11_MarkedLineReplacedAndSkipped ==
    Ran =>
        \A k \in last.pass.examined :
            (Contains(PreLines[k], last.inj.marker) /\ k < Len(PreLines)) =>
                /\ (k + 1) \notin last.pass.examined
                /\ IF Substituted(k + 1).raised = "none"
                   THEN /\ (k + 1) \in last.pass.applied
                        /\ last.pass.lines[k + 1] = Substituted(k + 1).ret
                   ELSE last.pass.raised = Substituted(k + 1).raised

\* C11's case: a replaced line that holds the marker, before and after, is
\* followed by a line the pass left alone.
C11_Witness ==
    /\ Ran /\ last.raised = "none"
    /\ \E k \in last.pass.applied :
          /\ Contains(PreLines[k], last.inj.marker)
          /\ Contains(last.pass.lines[k], last.inj.marker)
          /\ k < Len(PreLines)
          /\ (k + 1) \notin last.pass.applied

\* C12: an inject whose pass replaces no line raises RuntimeError and
\* leaves the file as it was.
C12_NoSubstitutionRaisesAndKeepsFile ==
    (Ran /\ last.pass.raised = "none" /\ last.pass.applied = {}) =>
        /\ last.raised = "RuntimeError"
        /\ sample = last.pre

\* C12's case: a file of several lines, none of them replaced, whose last
\* line holds the marker.
C12_Witness ==
    /\ Ran /\ last.pass.raised = "none" /\ last.pass.applied = {}
    /\ last.raised = "RuntimeError"
    /\ Len(PreLines) >= 2
    /\ Contains(PreLines[Len(PreLines)], last.inj.marker)

\* C13: an inject whose strategy fails on a line raises, and leaves the
\* file as it was.
C13_FailedPassKeepsFile ==
    (Ran /\ last.pass.raised # "none") =>
        /\ last.raised = last.pass.raised
        /\ sample = last.pre

\* C13's case: the strategy fails after the pass has replaced a line in
\* memory.
C13_Witness ==
    /\ Ran /\ last.pass.raised # "none"
    /\ last.pass.applied # {}
    /\ last.pass.lines # PreLines
    /\ sample = last.pre

\* C14: the version strategy returns the line with one token, which starts
\* with 'v' and a digit, replaced by the rendered version: all that stands
\* before the token and all that stands after it, to the end of the line,
\* is in the result.
C14_VersionKeepsPrefixAndSuffix ==
    (last.op = "substitute" /\ last.cls = "VersionInjector" /\ last.raised = "none") =>
        \E k \in 1..Len(last.pre), e \in 1..Len(last.pre) :
            /\ k < e /\ last.pre[k] = "v" /\ IsDigit(last.pre[k + 1])
            /\ IsAlnum(last.pre[e])
            /\ last.ret = SubSeq(last.pre, 1, k - 1) \o Str(heap[1])
                             \o SubSeq(last.pre, e + 1, Len(last.pre))

\* The lines of the bytes of a file, each with its line feed.
RawLines(file) == SplitLines(file)

\* C15: after an inject that succeeded the file has as many lines as
\* before, and every line that does not follow a line with the marker is
\* the same bytes as before.
C15_OtherLinesUntouched ==
    (Ran /\ last.raised = "none") =>
        /\ Len(RawLines(sample)) = Len(RawLines(last.pre))
        /\ \A k \in 1..Len(RawLines(last.pre)) :
              (k = 1 \/ ~Contains(RawLines(last.pre)[k - 1], last.inj.marker)) =>
                  /\ k <= Len(RawLines(sample))
                  /\ RawLines(sample)[k] = RawLines(last.pre)[k]

\* The latest call was the date strategy, and it found a date.
Dated == last.op = "substitute" /\ last.cls = "DateInjector" /\ last.raised = "none"

\* C16: the date strategy changes the first content run that holds a date
\* and no other run: the result has the control runs of the line, and its
\* content runs but for that one, each where it was.
C16_OnlyFirstDateRunChanges ==
    Dated =>
        /\ last.index = SetMin({i \in 1..Len(NewDateParser(last.pre).std_tokens) :
                                  HoldsDate(NewDateParser(last.pre).std_tokens[i])})
        /\ IsProtected(last.ret[1]) = IsProtected(last.pre[1])
        /\ NewDateParser(last.ret).prot_tokens = NewDateParser(last.pre).prot_tokens
        /\ Len(NewDateParser(last.ret).std_tokens) = Len(NewDateParser(last.pre).std_tokens)
        /\ \A i \in 1..Len(NewDateParser(last.pre).std_tokens) :
              i # last.index =>
                  NewDateParser(last.ret).std_tokens[i] = NewDateParser(last.pre).std_tokens[i]

\* C16's case: the first content run holds no date, the second is changed,
\* and a later one that holds a date too is left as it was.
C16_Witness ==
    /\ Dated
    /\ last.index = 2
    /\ \E i \in 3..Len(NewDateParser(last.pre).std_tokens) :
          /\ HoldsDate(NewDateParser(last.pre).std_tokens[i])
          /\ NewDateParser(last.ret).std_tokens[i] = NewDateParser(last.pre).std_tokens[i]
    /\ NewDateParser(last.ret).std_tokens[2] # NewDateParser(last.pre).std_tokens[2]

\* What the latest exists or runnable has to tell: whether the command is
\* on the PATH, and for runnable whether its run ended with status 0.
Condition ==
    IF last.op = "exists" THEN cmd = "present"
    ELSE cmd = "present" /\ last.returncode = 0

\* C17: exists and runnable raise only when required is set and the result
\* would be False, and then RuntimeError; they return the result otherwise.
C17_RaisesOnlyWhenRequired ==
    (last.op \in {"exists", "runnable"}) =>
        IF last.required /\ ~Condition
        THEN last.raised = "RuntimeError"
        ELSE last.raised = "none" /\ last.ret = PyBool(Condition)

\* The arguments a stream's callback gets for the characters text: a line
\* each, stripped.
Stripped(text) == [k \in 1..Len(SplitLines(text)) |-> strip(SplitLines(text)[k])]

\* C18: at every moment each callback has been called with lines of its own
\* stream only, in the order written; when execute returns the child has
\* exited, both readers are done and every line written has been passed on.
C18_AllLinesDeliveredAtReturn ==
    /\ \A t \in Streams :
          /\ Len(got[t]) <= Len(Stripped(wrote[t]))
          /\ got[t] = SubSeq(Stripped(wrote[t]), 1, Len(got[t]))
    /\ pc.main = "returned" =>
          /\ child.state = "exited"
          /\ last.ret = child.returncode
          /\ \A t \in Streams : pc[t] = "done" /\ got[t] = Stripped(wrote[t])

\* C18's case: execute has returned after the child wrote to both streams,
\* several lines to one of them.
C18_Witness ==
    /\ pc.main = "returned"
    /\ Len(got["out"]) >= 2
    /\ Len(got["err"]) >= 1
    /\ got["out"][1] # got["out"][2]

\* C19: merging the control runs and the content runs of a line, as they
\* are, gives the line back.
C19_RebuildReproducesLine ==
    (last.op = "rebuild" /\ last.content # <<>>) =>
        /\ last.raised = "none"
        /\ last.ret = last.content

\* C19's case: as many control runs as content runs, a control run first.
C19_Witness ==
    /\ last.op = "rebuild"
    /\ Len(last.prot) = Len(last.std) /\ Len(last.std) >= 2
    /\ IsProtected(last.content[1])
    /\ last.ret = last.content

\* C20: for a token made of fragments, a date and fragments, all of the
\* fragments being in the list, the prefix is the fragments before the date
\* and the suffix the fragments after it.
C20_PeelGivesPrefixAndSuffix ==
    last.op = "peel" =>
        /\ last.prefix = Join(last.front)
        /\ last.suffix = Join(last.back)

\* The latest inject read a file whose last line holds the marker.
MarkerLast ==
    /\ Ran
    /\ Len(PreLines) >= 1
    /\ Contains(PreLines[Len(PreLines)], last.inj.marker)

\* No line before the last one holds the marker.
OnlyMarkerLast ==
    \A k \in 1..(Len(PreLines) - 1) : ~Contains(PreLines[k], last.inj.marker)

\* C21: when the last line of the file holds the marker, the pass does not
\* look for the marker in it and replaces no line past the end of the list
\* (no IndexError); when no other line holds the marker, the pass ends
\* without an error, replaces nothing and returns False.
C21_MarkerOnLastLineIgnored ==
    MarkerLast =>
        /\ last.pass.examined \subseteq 1..(Len(PreLines) - 1)
        /\ last.pass.applied \subseteq 2..Len(PreLines)
        /\ last.pass.raised # "IndexError"
        /\ Len(last.pass.lines) = Len(PreLines)
        /\ OnlyMarkerLast =>
              /\ last.pass.raised = "none"
              /\ last.pass.applied = {}
              /\ ~last.pass.changed
              /\ last.pass.lines = PreLines

\* C21's case: a file of at least three lines whose last line is the only
\* one that holds the marker, every line before it looked at.
C21_Witness ==
    /\ MarkerLast /\ OnlyMarkerLast
    /\ Len(PreLines) >= 3
    /\ last.pass.examined = 1..(Len(PreLines) - 1)
    /\ ~last.pass.changed

\* The latest call applied the version strategy to a line as readlines
\* gives it: a line feed, if any, is its last character.
VersionLine ==
    /\ last.op = "substitute" /\ last.cls = "VersionInjector"
    /\ \A j \in 1..(Len(last.pre) - 1) : last.pre[j] # "\n"

\* Digits, a dot and a digit stand in s from i on.
DigitDotDigitAt(s, i) ==
    \E d \in (i + 1)..(Len(s) - 1) :
        /\ \A j \in i..(d - 1) : IsDigit(s[j])
        /\ s[d] = "." /\ IsDigit(s[d + 1])

\* s holds a bare digit-dot-digit sequence (a 'v' before it or not).
HoldsBareToken(s) == \E i \in 1..Len(s) : DigitDotDigitAt(s, i)

\* s holds a digit-dot-digit sequence right after a literal 'v'.
HoldsPrefixedToken(s) ==
    \E i \in 1..Len(s) : s[i] = "v" /\ DigitDotDigitAt(s, i + 1)

\* C22 as stated: the version strategy fails, with RuntimeError, exactly
\* on the lines that hold no version token, a token being a digit-dot-digit
\* sequence with a 'v' before it or bare.
C22_RecognisesPrefixedOrBareToken ==
    VersionLine =>
        /\ last.raised \in {"none", "RuntimeError"}
        /\ (last.raised = "RuntimeError") <=> ~HoldsBareToken(last.pre)

\* C22 amended: the version strategy fails, with RuntimeError, exactly on
\* the lines that hold no digit-dot-digit sequence right after a literal
\* 'v'; otherwise the token it replaces by the rendered version is the
\* leftmost one of the most specific of the four patterns (build and patch,
\* build, patch, neither) that matches anywhere in the line.
C22_RecognisesPrefixedToken ==
    VersionLine =>
        /\ last.raised \in {"none", "RuntimeError"}
        /\ (last.raised = "RuntimeError") <=> ~HoldsPrefixedToken(last.pre)
        /\ last.raised = "none" =>
              \E n \in 1..4, k \in 1..Len(last.pre) :
                  /\ TokenEnd(last.pre, k, n) # 0
                  /\ \A m \in 1..(n - 1), j \in 1..Len(last.pre) :
                         TokenEnd(last.pre, j, m) = 0
                  /\ \A j \in 1..(k - 1) : TokenEnd(last.pre, j, n) = 0
                  /\ Len(last.ret) >= k - 1 + Len(Str(heap[1]))
                  /\ SubSeq(last.ret, 1, k - 1 + Len(Str(heap[1])))
                        = SubSeq(last.pre, 1, k - 1) \o Str(heap[1])
                  /\ \E e \in TokenEnd(last.pre, k, n)..Len(last.pre) :
                         SubSeq(last.ret, k + Len(Str(heap[1])), Len(last.ret))
                            = SubSeq(last.pre, TokenEnd(last.pre, k, n) + 1, e)

\* C22's case: the line holds a token without patch and build tag before
\* a token with a build tag; the second one is replaced and the first one
\* is kept, where the least specific pattern would have taken the first.
C22_Witness ==
    /\ VersionLine /\ last.raised = "none"
    /\ \E k \in 2..Len(last.pre), n \in 1..2 :
          /\ TokenEnd(last.pre, k, n) # 0
          /\ \A j \in 1..(k - 1), m \in 1..3 : TokenEnd(last.pre, j, m) = 0
          /\ \E j \in 1..(k - 1) : TokenEnd(last.pre, j, 4) # 0
          /\ SubSeq(last.ret, 1, k - 1 + Len(Str(heap[1])))
                = SubSeq(last.pre, 1, k - 1) \o Str(heap[1])

\* C23: a bump that raises ValueError leaves the version as it was: major,
\* minor, patch, build tag and rendering after the call are those before
\* it, for MAJOR, MINOR and PATCH and for every shape.
C23_FailedBumpKeepsVersion ==
    (last.op = "bump" /\ last.raised = "ValueError") =>
        /\ Receiver.cls = last.pre.cls
        /\ major(Receiver) = major(last.pre)
        /\ minor(Receiver) = minor(last.pre)
        /\ patch(Receiver) = patch(last.pre)
        /\ build(Receiver) = build(last.pre)
        /\ Str(Receiver) = Str(last.pre)

\* C24: a comparison gives the same answer with the operands swapped:
\* a == b is what b == a is, and a < b is what b > a is, for two versions
\* of any shapes.
C24_ComparisonSwapsConsistently ==
    last.op = "compare" =>
        /\ last.cmp = "==" =>
              last.ret = RichCompare(heap[last.r], heap[last.l], "==")
        /\ last.cmp = "<" =>
              last.ret = RichCompare(heap[last.r], heap[last.l], ">")

\* The shape of a version: its class and, for the facade, the class of the
\* version it decorates.
Shape(o) ==
    <<o.cls, IF o.cls = "_VersionBuildDC" THEN o.__decorated.cls ELSE "none">>

\* C25: bump(PATCH, amount) with amount >= 1 on a version without a patch
\* field, plain or build-wrapped plain, raises nothing, leaves major, minor
\* and build tag as they were, adds no patch field and returns the
\* rendering the version had; and no bump, failed or not, changes the shape
\* of its receiver.
C25_PatchBumpWithoutPatchField ==
    last.op = "bump" =>
        /\ Shape(Receiver) = Shape(last.pre)
        /\ (last.bump = "PATCH" /\ last.increase >= 1 /\ ~HasPatch(last.pre)) =>
              /\ last.raised = "none"
              /\ ~HasPatch(Receiver)
              /\ major(Receiver) = major(last.pre)
              /\ minor(Receiver) = minor(last.pre)
              /\ patch(Receiver) = 0
              /\ build(Receiver) = build(last.pre)
              /\ last.ret = Str(last.pre)
              /\ Str(Receiver) = Str(last.pre)

\* C25's case: PATCH by two or more on a build-wrapped plain version whose
\* minor is not 0, the rendering returned being the one it had.
C25_Witness ==
    /\ last.op = "bump" /\ last.bump = "PATCH" /\ last.increase >= 2
    /\ last.pre.cls = "_VersionBuildDC" /\ ~HasPatch(last.pre)
    /\ minor(last.pre) > 0
    /\ last.raised = "none"
    /\ last.ret = Str(Receiver)

====
